---- MODULE Spec2Model ----
(***************************************************************************)
(* Model of the dog-adoption recommendation engine (src/src/ml_models.py)  *)
(* and of the recommendation form page (src/pages/recommendation-form.py). *)
(*                                                                         *)
(* Numbers.  Questionnaire answers and the weights of the answer           *)
(* translator are multiples of 0.05; an answer a is held as the integer    *)
(* 20*a and a weight w as 20*w, so a desired feature x is held as 400*x.   *)
(* A value of the scaled training matrix is held as a fraction [n, d].     *)
(* Distances are compared exactly (squared, over a common denominator).    *)
(***************************************************************************)
EXTENDS Integers, Sequences, FiniteSets, TLC

\* ------------------------------------------------------------------ bounds
MaxInv == 12        \* largest number of rows of an inventory file
MaxOff == 1         \* inventory files start at row 0..MaxOff of the dog list
MaxK == 5           \* largest k an engine client asks for is MaxK
MaxEngineInv == 5   \* largest inventory of the engine-level specification
MaxPending == 1     \* most clicks in a row that arrive before a run has ended

\* --------------------------------------------------------------- encodings
None == -1          \* Python's None (an unanswered question)
NaN == "NaN"        \* a missing cell of the inventory
NumNaN == -2        \* np.nan where a number is held (no code is negative)

AnswerScale == 20
Unit == AnswerScale * AnswerScale

PET_GENDER_ENCODING == [Hembra |-> 0, Macho |-> 1]

PET_SIZE_ENCODING ==
    [Enano |-> 0, Pequeno |-> 1, Mediano |-> 2, Grande |-> 3, Gigante |-> 4]

SizeLabels == <<"Enano", "Pequeno", "Mediano", "Grande", "Gigante">>

\* ---------------------------------------------------------------- columns
\* Boolean columns of the inventory, in file order.
BoolColumns ==
    <<"can_travel", "urgent_adoption", "needs_vet_care", "is_vaccinated",
      "is_dewormed", "is_healthy", "is_sterilized", "is_identified",
      "has_microchip", "has_passport", "good_with_children",
      "good_with_cats", "good_with_dogs", "is_affectionate",
      "is_hyperactive", "is_fearful", "is_sociable", "is_calm",
      "is_sedentary">>

\* A slip: is_sedentary is left out of the columns to drop.
DroppedColumnsFewer ==
    {"name", "breed", "province", "is_dewormed", "is_identified",
     "has_microchip", "is_affectionate", "description_1", "description_2",
     "img_url", "info_url"}

\* Columns dropped before training (ml_models.py:153-168); only the boolean
\* ones matter here, the others are text.
DroppedColumns ==
    {"name", "breed", "province", "is_dewormed", "is_identified",
     "has_microchip", "is_affectionate", "is_sedentary", "description_1",
     "description_2", "img_url", "info_url"}

\* Row ids dropped before training (ml_models.py:175-187).
Denylist ==
    {2023, 8706, 11011, 11221, 11334, 12385, 12541, 12780, 13156, 13377,
     13378}

SeqToSet(s) == {s[i] : i \in 1..Len(s)}

Range(f) == {f[x] : x \in DOMAIN f}

\* ------------------------------------------------------------ the inventory
\* The i-th dog of the shelter's list.  A dog is a row of the inventory:
\* id (the index label), gender, size (a label or NaN), age and the set of
\* boolean columns that are True.
IdOf(i) == IF i = 6 THEN 2023 ELSE 3 * i + 1

FlagsOf(i) ==
    {BoolColumns[j] : j \in {j \in 1..Len(BoolColumns) : ((i + 1) * j) % 3 = 0}}

\* Many dogs of a shelter have the same attributes: dogs 2 and 4 have those
\* of dog 0, dog 5 those of dog 1.
LikeDog(i) == IF i \in {2, 4} THEN 0 ELSE IF i = 5 THEN 1 ELSE i

\* Some rows of the list are badly filled in: the gender cell is empty
\* (dogs 20 and 27) or holds a label that is not a gender (dog 21), the size
\* cell is empty (dogs 3, 11, 19, 27, ...) or holds a label that is not a
\* size (dog 22).
Dog(i) ==
    LET c == LikeDog(i)
    IN  [id     |-> IdOf(i),
         gender |-> IF i \in {20, 27} THEN NaN
                    ELSE IF i = 21 THEN "Desconocido"
                    ELSE IF c % 2 = 0 THEN "Hembra" ELSE "Macho",
         size   |-> IF i % 8 = 3 THEN NaN
                    ELSE IF i = 22 THEN "Toy"
                    ELSE SizeLabels[((2 * c) % 5) + 1],
         age    |-> 1 + ((3 * c) % 5),
         flags  |-> FlagsOf(c)]

\* An inventory file: n consecutive dogs of the list, from dog off on.
Inventory(off, n) == [r \in 1..n |-> Dog(off + r - 1)]

EngineInventories ==
    {Inventory(off, n) : off \in 0..MaxOff, n \in 0..MaxEngineInv}

\* The files the page is run against, all starting at the denylisted dog:
\* an empty one, one with fewer rows than the page asks recommendations
\* for, and a large enough one.
PageInventories == {Inventory(6, n) : n \in {0, MaxInv - 1, MaxInv}}

\* The files the feature codec is run against: three rows each, some with a
\* badly filled row.
FeatureInventories == {Inventory(off, 3) : off \in 17..26}

\* --------------------------------------------------- Dataset Preprocessor
SetMin(S) == CHOOSE x \in S : \A y \in S : x <= y

SetMax(S) == CHOOSE x \in S : \A y \in S : x >= y

\* A slip: the denylisted rows are not dropped.
KeptRowSizeOnly(row) == row.size # NaN

\* dropna(subset=["size"]) followed by drop(index=[...], errors="ignore").
KeptRow(row) == row.size # NaN /\ row.id \notin Denylist

\* The rows that pass the filter, in their order, with their ids.
RECURSIVE FilterRows(_)
FilterRows(dogs_df) ==
    IF Len(dogs_df) = 0 THEN <<>>
    ELSE LET rest == FilterRows(SubSeq(dogs_df, 1, Len(dogs_df) - 1))
             last == dogs_df[Len(dogs_df)]
         IN  IF KeptRow(last) THEN Append(rest, last) ELSE rest

\* Columns of the encoded frame: the numeric column, the two encoded
\* categorical columns, then every boolean column that was not dropped.
KeptBoolColumns ==
    SelectSeq(BoolColumns, LAMBDA c : c \notin DroppedColumns)

TrainColumns == <<"age", "is_male", "size">> \o KeptBoolColumns

\* Series.map(encoding) of one cell: the code of a key, NaN for any other
\* cell.
MapCategory(encoding, cell) ==
    IF cell \in DOMAIN encoding THEN encoding[cell] ELSE NumNaN

\* One row of the encoded frame (integers).
EncodeRow(row) ==
    [f \in SeqToSet(TrainColumns) |->
        IF f = "age" THEN row.age
        ELSE IF f = "is_male" THEN MapCategory(PET_GENDER_ENCODING, row.gender)
        ELSE IF f = "size" THEN MapCategory(PET_SIZE_ENCODING, row.size)
        ELSE IF f \in row.flags THEN 1 ELSE 0]

\* MinMaxScaler(feature_range=(0, 1)).fit on the columns age and size.
FitScaler(encoded) ==
    [f \in {"age", "size"} |->
        [min |-> SetMin({encoded[r][f] : r \in 1..Len(encoded)}),
         max |-> SetMax({encoded[r][f] : r \in 1..Len(encoded)})]]

\* A constant column has range 0, which the scaler replaces by 1.
ScaleRange(scaler, f) ==
    IF scaler[f].max = scaler[f].min THEN 1 ELSE scaler[f].max - scaler[f].min

\* A slip: the values are divided by the observed maximum, without taking
\* the minimum off.
ScaleRowByMax(scaler, enc) ==
    [f \in DOMAIN enc |->
        IF f \in DOMAIN scaler
        THEN [n |-> enc[f], d |-> scaler[f].max]
        ELSE [n |-> enc[f], d |-> 1]]

\* scaler.transform of one encoded row: age and size become fractions of the
\* observed range, every other column is left as it is.
ScaleRow(scaler, enc) ==
    [f \in DOMAIN enc |->
        IF f \in DOMAIN scaler
        THEN [n |-> enc[f] - scaler[f].min, d |-> ScaleRange(scaler, f)]
        ELSE [n |-> enc[f], d |-> 1]]

RECURSIVE SumSeq(_)
SumSeq(s) == IF Len(s) = 0 THEN 0 ELSE s[1] + SumSeq(Tail(s))

\* DataFrame.mean(): the column-wise mean of the scaled frame, as a fraction.
ColumnMeans(scaled) ==
    [f \in SeqToSet(TrainColumns) |->
        [n |-> SumSeq([r \in 1..Len(scaled) |-> scaled[r].x[f].n]),
         d |-> scaled[1].x[f].d * Len(scaled)]]

\* A slip: the cast is numpy's, which turns NaN into a number without
\* raising.
CastIgnoresUnmapped(encoded) == FALSE

\* astype(int) raises ValueError when Series.map(ENCODING) left a NaN in the
\* column: the cell of a kept row is not a key of the encoding.
UnmappedCategory(encoded) ==
    \E r \in 1..Len(encoded) :
        encoded[r]["is_male"] = NumNaN \/ encoded[r]["size"] = NumNaN

\* preprocess_train_data: the training frame (rows keep their ids), the
\* fitted scaler and the feature means; an unmapped category, or fitting
\* the scaler on an empty frame, raises ValueError.
preprocess_train_data(dogs_df) ==
    LET filtered == FilterRows(dogs_df)
        encoded  == [r \in 1..Len(filtered) |-> EncodeRow(filtered[r])]
        scaler   == FitScaler(encoded)
        scaled   == [r \in 1..Len(filtered) |->
                        [id |-> filtered[r].id,
                         x  |-> ScaleRow(scaler, encoded[r])]]
    IN  IF UnmappedCategory(encoded) \/ Len(filtered) = 0
        THEN [ok |-> FALSE, err |-> "ValueError"]
        ELSE [ok |-> TRUE, train |-> scaled, scaler |-> scaler,
              means |-> ColumnMeans(scaled)]

\* ------------------------------------------------ Neighbor Search Engine
\* The pickled artifact: a NearestNeighbors(n_neighbors=2, algorithm="auto")
\* that was fitted, when it was trained, on the first rows of the list.
ArtifactInventory == Inventory(0, 3)

\* A slip: fitting adds the frame's rows to those the index holds instead
\* of replacing them.
KnnFitAppend(knn_model, train) ==
    [knn_model EXCEPT !.fit_X = @ \o [r \in 1..Len(train) |-> train[r].x],
                      !.feature_names_in = TrainColumns]

\* NearestNeighbors.fit(frame): the index keeps the frame's values and its
\* column names; the row ids are not part of the index.
KnnFit(knn_model, train) ==
    [knn_model EXCEPT !.fit_X = [r \in 1..Len(train) |-> train[r].x],
                      !.feature_names_in = TrainColumns]

load_model ==
    KnnFit([n_neighbors |-> 2, algorithm |-> "auto", fit_X |-> <<>>,
            feature_names_in |-> <<>>],
           preprocess_train_data(ArtifactInventory).train)

\* retrain_knn_model: preprocess, then fit the model in place.
retrain_knn_model(knn_model, dogs_df) ==
    LET pre == preprocess_train_data(dogs_df)
    IN  IF ~pre.ok THEN pre
        ELSE [ok |-> TRUE, knn |-> KnnFit(knn_model, pre.train),
              train |-> pre.train, scaler |-> pre.scaler, means |-> pre.means]

\* ------------------------------------------------------ Answer Translator
\* The options of the ten questions (questions.py), as 20 * value; question
\* q supplies client_answers[q].
QUESTIONS ==
    <<{0, 7, 20, 13, 10}, {0, 5, 10, 15, 20}, {0, 6, 14, 20}, {0, 6, 14, 20},
      {0, 5, 10, 15, 20}, {10, 20, 16, 0}, {10, 20, 0}, {20, 14, 10},
      {0, 4, 10, 16, 20}, {20, 14, 6, 0}>>

\* The answers whose value enters a weighted sum (None * 0.6 raises).
ArithmeticAnswers == {2, 3, 4, 6, 7, 8, 9, 10}

\* The keys of the desired vector, in the order the Series is built.
PetFeatureIndex ==
    <<"age", "is_male", "size", "can_travel", "urgent_adoption",
      "needs_vet_care", "is_vaccinated", "is_healthy", "is_sterilized",
      "has_passport", "good_with_children", "good_with_cats",
      "good_with_dogs", "is_hyperactive", "is_fearful", "is_sociable",
      "is_calm">>

\* A slip: a weight of is_sociable is 0.2 for 0.15, so its weights sum to
\* 1.05.
PetFeatureValuesHeavy(a) ==
    [age                |-> a[3] * 12 + a[4] * 8,
     is_male            |-> a[1] * AnswerScale,
     size               |-> a[2] * 6 + a[3] * 6 + a[4] * 6 + a[9] * 2,
     can_travel         |-> a[0] * AnswerScale,
     urgent_adoption    |-> a[0] * AnswerScale,
     needs_vet_care     |-> a[4] * 14 + a[9] * 6,
     is_vaccinated      |-> a[5] * AnswerScale,
     is_healthy         |-> a[4] * 14 + a[9] * 6,
     is_sterilized      |-> a[5] * AnswerScale,
     has_passport       |-> a[5] * AnswerScale,
     good_with_children |-> a[8] * AnswerScale,
     good_with_cats     |-> a[7] * AnswerScale,
     good_with_dogs     |-> a[6] * AnswerScale,
     is_hyperactive     |-> a[3] * 8 + a[9] * 12,
     is_fearful         |-> a[6] * 6 + a[7] * 6 + a[8] * 6 + a[10] * 2,
     is_sociable        |-> a[6] * 2 + a[8] * 4 + a[9] * 8 + a[10] * 7,
     is_calm            |-> a[3] * 10 + a[9] * 10]

\* A slip: the answers about dogs and cats at home are taken one for the
\* other.
PetFeatureValuesSwapped(a) ==
    [age                |-> a[3] * 12 + a[4] * 8,
     is_male            |-> a[1] * AnswerScale,
     size               |-> a[2] * 6 + a[3] * 6 + a[4] * 6 + a[9] * 2,
     can_travel         |-> a[0] * AnswerScale,
     urgent_adoption    |-> a[0] * AnswerScale,
     needs_vet_care     |-> a[4] * 14 + a[9] * 6,
     is_vaccinated      |-> a[5] * AnswerScale,
     is_healthy         |-> a[4] * 14 + a[9] * 6,
     is_sterilized      |-> a[5] * AnswerScale,
     has_passport       |-> a[5] * AnswerScale,
     good_with_children |-> a[8] * AnswerScale,
     good_with_cats     |-> a[6] * AnswerScale,
     good_with_dogs     |-> a[7] * AnswerScale,
     is_hyperactive     |-> a[3] * 8 + a[9] * 12,
     is_fearful         |-> a[6] * 6 + a[7] * 6 + a[8] * 6 + a[10] * 2,
     is_sociable        |-> a[6] * 2 + a[8] * 3 + a[9] * 8 + a[10] * 7,
     is_calm            |-> a[3] * 10 + a[9] * 10]

\* The values of the desired vector (as 400 * value): weights are 20 * w.
PetFeatureValues(a) ==
    [age                |-> a[3] * 12 + a[4] * 8,
     is_male            |-> a[1] * AnswerScale,
     size               |-> a[2] * 6 + a[3] * 6 + a[4] * 6 + a[9] * 2,
     can_travel         |-> a[0] * AnswerScale,
     urgent_adoption    |-> a[0] * AnswerScale,
     needs_vet_care     |-> a[4] * 14 + a[9] * 6,
     is_vaccinated      |-> a[5] * AnswerScale,
     is_healthy         |-> a[4] * 14 + a[9] * 6,
     is_sterilized      |-> a[5] * AnswerScale,
     has_passport       |-> a[5] * AnswerScale,
     good_with_children |-> a[8] * AnswerScale,
     good_with_cats     |-> a[7] * AnswerScale,
     good_with_dogs     |-> a[6] * AnswerScale,
     is_hyperactive     |-> a[3] * 8 + a[9] * 12,
     is_fearful         |-> a[6] * 6 + a[7] * 6 + a[8] * 6 + a[10] * 2,
     is_sociable        |-> a[6] * 2 + a[8] * 3 + a[9] * 8 + a[10] * 7,
     is_calm            |-> a[3] * 10 + a[9] * 10]

\* client_answers_to_pet_features: a Series (ordered keys and their values);
\* a None answer in a weighted sum raises TypeError, a None that is passed
\* through stays in the vector as a missing value.
client_answers_to_pet_features(client_answers) ==
    IF \E i \in ArithmeticAnswers : client_answers[i] = None
    THEN [ok |-> FALSE, err |-> "TypeError"]
    ELSE [ok |-> TRUE, index |-> PetFeatureIndex,
          values |-> PetFeatureValues(client_answers),
          missing |-> {f \in {"is_male"} : client_answers[1] = None}
                      \cup {f \in {"is_vaccinated", "is_sterilized",
                                   "has_passport"} : client_answers[5] = None}]

\* preprocess_input_data: a one-row frame with the Series' keys as columns,
\* in the Series' order.
preprocess_input_data(input_data) ==
    [columns |-> input_data.index, row |-> input_data.values,
     missing |-> input_data.missing]

\* -------------------------------------------------------- Feature Encoder
\* A Series of features is a function from its keys to its values; a number
\* v is held as 20 * v, a label as itself, a Python bool as a boolean.
\*
\* A slip: the test of invert_dict is turned round, so every code gets the
\* placeholder.
invert_dict_flipped(d) ==
    [v \in Range(d) \cup {NumNaN} |-> "Desconocido"]

\* invert_dict: code -> label, and np.nan -> "Desconocido" (no value of the
\* encodings is None).
invert_dict(d) ==
    [v \in Range(d) \cup {NumNaN} |->
        IF v = NumNaN THEN "Desconocido"
        ELSE CHOOSE k \in DOMAIN d : d[k] = v]

INV_PET_GENDER_ENCODING == invert_dict(PET_GENDER_ENCODING)

INV_PET_SIZE_ENCODING == invert_dict(PET_SIZE_ENCODING)

\* The columns of the inventory frame (dogs_df[feature] raises KeyError for
\* any other name); the boolean ones are BoolColumns.
DogColumns ==
    {"name", "breed", "province", "gender", "size", "age", "description_1",
     "description_2", "img_url", "info_url"} \cup SeqToSet(BoolColumns)

\* inv[x] for a number x held as 20 * x: the codes of the dict that equal x.
\* (A NaN read from a float Series is not the object np.nan the dict is
\* keyed by and is not looked up here.)
KeysEqual(inv, x) ==
    {c \in DOMAIN inv : c # NumNaN /\ AnswerScale * c = x}

\* Python's round(x) for x held as 20 * x: to the nearest integer, a half
\* to the even one.
PyRound(x) ==
    LET q == x \div AnswerScale
        r == x % AnswerScale
    IN  IF 2 * r < AnswerScale THEN q
        ELSE IF 2 * r > AnswerScale THEN q + 1
        ELSE IF q % 2 = 0 THEN q ELSE q + 1

\* int(bool(value)) of a Python bool.
EncodeBool(value) == IF value THEN AnswerScale ELSE 0

\* A slip: the cast without the rounding, bool(value).
DecodeBoolNoRound(value) == value # 0

\* bool(round(value)).
DecodeBool(value) == PyRound(value) # 0

\* The loop of encode_non_numeric_features raises KeyError on a feature.
EncodeRaises(input_data) ==
    \E f \in DOMAIN input_data :
        \/ f = "gender" /\ input_data[f] \notin DOMAIN PET_GENDER_ENCODING
        \/ f = "size" /\ input_data[f] \notin DOMAIN PET_SIZE_ENCODING
        \/ f \notin {"gender", "size"} /\ f \notin DogColumns

\* encode_non_numeric_features(input_data), dogs_df being the global.
encode_non_numeric_features(input_data, df) ==
    IF df = <<>> THEN [ok |-> FALSE, err |-> "AssertionError"]
    ELSE IF EncodeRaises(input_data) THEN [ok |-> FALSE, err |-> "KeyError"]
    ELSE [ok |-> TRUE,
          out |-> [g \in {IF f = "gender" THEN "is_male" ELSE f :
                            f \in DOMAIN input_data} |->
                     IF g = "is_male" /\ "gender" \in DOMAIN input_data
                     THEN AnswerScale
                            * PET_GENDER_ENCODING[input_data["gender"]]
                     ELSE IF g = "size"
                     THEN AnswerScale * PET_SIZE_ENCODING[input_data[g]]
                     ELSE IF g \in SeqToSet(BoolColumns)
                     THEN EncodeBool(input_data[g])
                     ELSE input_data[g]]]

\* The loop of decode_non_numeric_features raises KeyError on a feature.
DecodeRaises(input_data) ==
    \E f \in DOMAIN input_data :
        \/ f = "is_male"
             /\ KeysEqual(INV_PET_GENDER_ENCODING, input_data[f]) = {}
        \/ f = "size"
             /\ KeysEqual(INV_PET_SIZE_ENCODING, input_data[f]) = {}
        \/ f \notin {"is_male", "size"} /\ f \notin DogColumns

\* decode_non_numeric_features(input_data), dogs_df being the global.
decode_non_numeric_features(input_data, df) ==
    IF df = <<>> THEN [ok |-> FALSE, err |-> "AssertionError"]
    ELSE IF DecodeRaises(input_data) THEN [ok |-> FALSE, err |-> "KeyError"]
    ELSE [ok |-> TRUE,
          out |-> [g \in {IF f = "is_male" THEN "gender" ELSE f :
                            f \in DOMAIN input_data} |->
                     IF g = "gender" /\ "is_male" \in DOMAIN input_data
                     THEN INV_PET_GENDER_ENCODING[
                              CHOOSE c \in KeysEqual(INV_PET_GENDER_ENCODING,
                                           input_data["is_male"]) : TRUE]
                     ELSE IF g = "size"
                     THEN INV_PET_SIZE_ENCODING[
                              CHOOSE c \in KeysEqual(INV_PET_SIZE_ENCODING,
                                           input_data[g]) : TRUE]
                     ELSE IF g \in SeqToSet(BoolColumns)
                     THEN DecodeBool(input_data[g])
                     ELSE input_data[g]]]

\* ------------------------------------------------------- neighbour query
\* Squared Euclidean distance of the query row to one fitted row, over the
\* common denominator Unit * den (den = the product of the two scaled
\* columns' denominators, the same for every row of a fit).
SqDist(v, x, den) ==
    SumSeq([j \in 1..Len(PetFeatureIndex) |->
              LET f == PetFeatureIndex[j]
                  diff == v[f] * den - x[f].n * Unit * (den \div x[f].d)
              IN  diff * diff])

Distances(v, fit_X) ==
    [r \in 1..Len(fit_X) |->
        SqDist(v, fit_X[r], fit_X[1]["age"].d * fit_X[1]["size"].d)]

\* A slip: the comparison that keeps the nearest candidates is turned
\* round, so any remaining row may come next.
RECURSIVE NearestOrdersAny(_, _, _)
NearestOrdersAny(dist, k, chosen) ==
    IF Len(chosen) = k THEN {chosen}
    ELSE LET rest == (DOMAIN dist) \ SeqToSet(chosen)
             m    == SetMin({dist[i] : i \in rest})
         IN  UNION {NearestOrdersAny(dist, k, Append(chosen, i)) :
                       i \in {j \in rest : dist[j] >= m}}

\* Every list of k distinct rows that is sorted by distance and leaves no
\* nearer row out.  The library's selection and sort are not stable, so
\* rows at equal distance may come in any order, and any of the rows tied
\* for the last places may take them.
RECURSIVE NearestOrders(_, _, _)
NearestOrders(dist, k, chosen) ==
    IF Len(chosen) = k THEN {chosen}
    ELSE LET rest == (DOMAIN dist) \ SeqToSet(chosen)
             m    == SetMin({dist[i] : i \in rest})
         IN  UNION {NearestOrders(dist, k, Append(chosen, i)) :
                       i \in {j \in rest : dist[j] = m}}

\* A slip: a request for more rows than were fitted is cut down to the
\* fitted rows instead of being refused.
kneighborsClamped(knn_model, X, n_neighbors) ==
    IF X.columns # knn_model.feature_names_in \/ X.missing # {}
       \/ n_neighbors <= 0
    THEN {[ok |-> FALSE, err |-> "ValueError"]}
    ELSE {[ok |-> TRUE, ind |-> o] :
             o \in NearestOrders(Distances(X.row, knn_model.fit_X),
                                 IF n_neighbors > Len(knn_model.fit_X)
                                 THEN Len(knn_model.fit_X) ELSE n_neighbors,
                                 <<>>)}

\* NearestNeighbors.kneighbors(X, n_neighbors, return_distance=False)[0]:
\* the possible outcomes.  The column names of X must be the fitted ones in
\* the fitted order, X must hold no missing value, and n_neighbors must be
\* in 1..n_samples_fit; otherwise ValueError.
kneighbors(knn_model, X, n_neighbors) ==
    IF X.columns # knn_model.feature_names_in \/ X.missing # {}
       \/ n_neighbors <= 0 \/ n_neighbors > Len(knn_model.fit_X)
    THEN {[ok |-> FALSE, err |-> "ValueError"]}
    ELSE {[ok |-> TRUE, ind |-> o] :
             o \in NearestOrders(Distances(X.row, knn_model.fit_X),
                                 n_neighbors, <<>>)}

\* dogs_df.loc[label]: the inventory rows that carry the label.
RowsById(dogs_df, id) == {r \in 1..Len(dogs_df) : dogs_df[r].id = id}

\* A slip: the position in the training frame is used as a position in the
\* inventory (dogs_df.iloc[recommendation_id]).
MapRecommendationsByPosition(ind, dogs_df, dogs_train_df) ==
    IF \E j \in 1..Len(ind) : ind[j] > Len(dogs_df)
    THEN [ok |-> FALSE, err |-> "IndexError"]
    ELSE [ok |-> TRUE, ind |-> ind,
          recs |-> [j \in 1..Len(ind) |-> dogs_df[ind[j]]]]

\* The result list of get_pet_recommendations for the row positions ind:
\* position -> id of that row of the training frame -> inventory row.  ind
\* is kept with the records for the properties to refer to.
MapRecommendations(ind, dogs_df, dogs_train_df) ==
    IF \E j \in 1..Len(ind) : ind[j] > Len(dogs_train_df)
    THEN [ok |-> FALSE, err |-> "IndexError"]
    ELSE IF \E j \in 1..Len(ind) :
               RowsById(dogs_df, dogs_train_df[ind[j]].id) = {}
    THEN [ok |-> FALSE, err |-> "KeyError"]
    ELSE [ok |-> TRUE, ind |-> ind,
          recs |-> [j \in 1..Len(ind) |->
                      dogs_df[CHOOSE r \in RowsById(dogs_df,
                                 dogs_train_df[ind[j]].id) : TRUE]]]

\* isinstance(model, NearestNeighbors), for a global (<<>> while None) and
\* for an unpickled object.
IsNearestNeighbors(model) == "n_neighbors" \in DOMAIN model

IsIndex(knn) == knn # <<>> /\ IsNearestNeighbors(knn[1])

\* A slip: the requested number is not passed on, so the model's own
\* n_neighbors decides how many rows come back.
get_pet_recommendations_default_k(client_answers, number_of_recommendations, knn, df, train_df) ==
    IF ~IsIndex(knn) \/ df = <<>> \/ train_df = <<>>
    THEN {[ok |-> FALSE, err |-> "AssertionError"]}
    ELSE LET pet_desired_features ==
                 client_answers_to_pet_features(client_answers)
         IN  IF ~pet_desired_features.ok THEN {pet_desired_features}
             ELSE {IF n.ok THEN MapRecommendations(n.ind, df[1], train_df[1])
                   ELSE n :
                     n \in kneighbors(knn[1],
                              preprocess_input_data(pet_desired_features),
                              knn[1].n_neighbors)}

\* A slip: instead of refusing, an engine that was never set up falls back
\* to the pickled artifact and the rows it was trained on.
get_pet_recommendations_lazy(client_answers, number_of_recommendations, knn, df, train_df) ==
    LET knn1 == IF knn = <<>> THEN <<load_model>> ELSE knn
        df1 == IF df = <<>> THEN <<ArtifactInventory>> ELSE df
        train1 == IF train_df = <<>>
                  THEN <<preprocess_train_data(ArtifactInventory).train>>
                  ELSE train_df
        pet_desired_features ==
            client_answers_to_pet_features(client_answers)
    IN  IF ~pet_desired_features.ok THEN {pet_desired_features}
        ELSE {IF n.ok THEN MapRecommendations(n.ind, df1[1], train1[1])
              ELSE n :
                n \in kneighbors(knn1[1],
                         preprocess_input_data(pet_desired_features),
                         number_of_recommendations)}

\* get_pet_recommendations with the module globals as defaults: the set of
\* possible outcomes.  A global is <<>> while it is None and <<value>> once
\* it is assigned.
get_pet_recommendations(client_answers, number_of_recommendations, knn, df, train_df) ==
    IF ~IsIndex(knn) \/ df = <<>> \/ train_df = <<>>
    THEN {[ok |-> FALSE, err |-> "AssertionError"]}
    ELSE LET pet_desired_features ==
                 client_answers_to_pet_features(client_answers)
         IN  IF ~pet_desired_features.ok THEN {pet_desired_features}
             ELSE {IF n.ok THEN MapRecommendations(n.ind, df[1], train_df[1])
                   ELSE n :
                     n \in kneighbors(knn[1],
                              preprocess_input_data(pet_desired_features),
                              number_of_recommendations)}

\* ------------------------------------------------------------------ state
VARIABLES
    dataset_file,     \* the inventory file on disk (its rows)
    knn_model,        \* ml_models.__knn_model      (<<>> while None)
    scaler_model,     \* ml_models.__scaler_model
    chars_means,      \* ml_models.__chars_means
    dogs_df,          \* ml_models.__dogs_df
    dogs_train_df,    \* ml_models.__dogs_train_df
    call,             \* the last call an engine client made, with its outcome
    prev,             \* the query that client made before the last one
    session_state,    \* st.session_state of the recommendation page
    form_values,      \* the values the browser holds for the form's widgets
    run,              \* what the last run of the page did and rendered
    threads           \* the script threads of the sessions the server runs

engine == <<knn_model, scaler_model, chars_means, dogs_df, dogs_train_df>>

client == <<call, prev>>

page == <<session_state, form_values, run>>

vars == <<dataset_file, engine, client, page, threads>>

\* ------------------------------------------------------------- the inputs
\* Complete questionnaires: answers 0..10, answer 0 fixed at 1 (20/20).
BaseAnswers ==
    <<[i \in 0..10 |->
          <<20, 10, 10, 14, 6, 10, 10, 10, 10, 10, 14>>[i + 1]],
      [i \in 0..10 |->
          <<20, 20, 0, 0, 0, 0, 20, 20, 20, 0, 0>>[i + 1]],
      [i \in 0..10 |->
          <<20, 7, 15, 20, 14, 15, 0, 20, 14, 16, 6>>[i + 1]],
      [i \in 0..10 |->
          <<20, 13, 20, 6, 20, 20, 16, 0, 10, 20, 20>>[i + 1]]>>

CompleteAnswers == SeqToSet(BaseAnswers)

\* The questionnaires an engine client queries with.
QueryAnswers == {BaseAnswers[1], BaseAnswers[2]}

\* What a form can submit: a complete questionnaire, or one with one of the
\* questions 1..10 left unanswered.
FormAnswers ==
    CompleteAnswers
    \cup {[BaseAnswers[1] EXCEPT ![i] = None] : i \in 1..10}
    \cup {[BaseAnswers[3] EXCEPT ![3] = None],
          [BaseAnswers[4] EXCEPT ![10] = None]}

\* What the widgets of the form can hold when ENVIAR is pressed.
FormInputs ==
    [answers : FormAnswers, terms : BOOLEAN, privacy : BOOLEAN]

load_dataset(file) == file

\* --------------------------------------------------- engine-level actions
\* setup_nn_models(): load the artifact, load the inventory, refit.  The
\* three assignments happen in this order, so when the refit raises, the
\* model and the inventory are already replaced and the rest is not.  The
\* value is the module's globals after the call, and whether it raised.
setup_nn_models ==
    LET model == load_model
        df    == load_dataset(dataset_file)
        fit   == retrain_knn_model(model, df)
    IN  IF fit.ok
        THEN [raised |-> FALSE, knn_model |-> <<fit.knn>>,
              dogs_df |-> <<df>>, dogs_train_df |-> <<fit.train>>,
              scaler_model |-> <<fit.scaler>>, chars_means |-> <<fit.means>>]
        ELSE [raised |-> TRUE, knn_model |-> <<model>>,
              dogs_df |-> <<df>>, dogs_train_df |-> dogs_train_df,
              scaler_model |-> scaler_model, chars_means |-> chars_means]

\* The module's globals become those of g.
AssignGlobals(g) ==
    /\ knn_model' = g.knn_model
    /\ dogs_df' = g.dogs_df
    /\ dogs_train_df' = g.dogs_train_df
    /\ scaler_model' = g.scaler_model
    /\ chars_means' = g.chars_means

NoCall == [op |-> "none"]

\* An engine client calls setup_nn_models().
Setup ==
    \E g \in {setup_nn_models} :
        /\ AssignGlobals(g)
        /\ call' = [op |-> "setup", ok |-> ~g.raised]
        /\ prev' = NoCall
        /\ UNCHANGED <<dataset_file, page, threads>>

\* An engine client calls get_pet_recommendations(answers, k).
Query ==
    \E answers \in QueryAnswers, k \in 0..MaxK :
      \E out \in get_pet_recommendations(answers, k, knn_model, dogs_df,
                                         dogs_train_df) :
        /\ call' = [op |-> "query", answers |-> answers, k |-> k,
                    ok |-> out.ok,
                    err |-> IF out.ok THEN "" ELSE out.err,
                    recs |-> IF out.ok THEN out.recs ELSE <<>>,
                    ind |-> IF out.ok THEN out.ind ELSE <<>>]
        /\ prev' = IF call.op = "query" THEN call ELSE NoCall
        /\ UNCHANGED <<dataset_file, engine, page, threads>>

\* An engine client calls retrain_knn_model() with the globals as defaults:
\* the model is fitted in place, the frame, the scaler and the means are
\* returned to the caller and the other globals are left as they are.
Retrain ==
    \E r \in {IF ~IsIndex(knn_model) \/ dogs_df = <<>>
               THEN [ok |-> FALSE, err |-> "AssertionError"]
               ELSE retrain_knn_model(knn_model[1], dogs_df[1])} :
        /\ knn_model' = IF r.ok THEN <<r.knn>> ELSE knn_model
        /\ call' = [op |-> "retrain", ok |-> r.ok,
                    err |-> IF r.ok THEN "" ELSE r.err,
                    train |-> IF r.ok THEN <<r.train>> ELSE <<>>,
                    scaler |-> IF r.ok THEN <<r.scaler>> ELSE <<>>,
                    means |-> IF r.ok THEN <<r.means>> ELSE <<>>]
        /\ prev' = NoCall
        /\ UNCHANGED <<dataset_file, scaler_model, chars_means, dogs_df,
                       dogs_train_df, page, threads>>

\* No session runs the script.
Sessions == {"a", "b"}

NoThreads ==
    [s \in Sessions |-> [pc |-> "idle", fitted |-> <<>>, ran_on |-> <<>>]]

InitSession ==
    [client_answers |-> <<>>, terms_and_conditions |-> FALSE,
     privacy_policy |-> FALSE, form_submitted |-> FALSE,
     pet_recommendations |-> <<>>, current_pet_id |-> 0,
     number_of_recommendations |-> 10, next_recommendation |-> FALSE,
     previous_recommendation |-> FALSE]

InitCommon ==
    /\ knn_model = <<>>
    /\ scaler_model = <<>>
    /\ chars_means = <<>>
    /\ dogs_df = <<>>
    /\ dogs_train_df = <<>>
    /\ call = NoCall
    /\ prev = NoCall
    /\ session_state = InitSession
    /\ form_values = [answers |-> [i \in 0..10 |-> IF i = 0 THEN 20 ELSE None],
                      terms |-> FALSE, privacy |-> FALSE]
    /\ run = [trigger |-> "none", outcome |-> "idle", refit |-> FALSE,
              queries |-> 0, displayed |-> <<>>, nav |-> FALSE,
              prev_enabled |-> FALSE, next_enabled |-> FALSE,
              sub_queries |-> 0, pending |-> 0]
    /\ threads = NoThreads

InitEngine == InitCommon /\ dataset_file \in EngineInventories

NextEngine == Setup \/ Query \/ Retrain

SpecEngine == InitEngine /\ [][NextEngine]_vars

\* -------------------------------------------------- feature-level actions
\* The answer sequences the translator is applied to: what a form can
\* submit, and, the translator being a function of any eleven numbers, the
\* sequences that are 1 at one index and 0 elsewhere, all 1 and all 0.
UnitAnswers(i) == [j \in 0..10 |-> IF j = i THEN AnswerScale ELSE 0]

TranslatorAnswers ==
    FormAnswers
    \cup {UnitAnswers(i) : i \in 0..10}
    \cup {[j \in 0..10 |-> AnswerScale], [j \in 0..10 |-> 0]}

\* An engine client calls client_answers_to_pet_features(answers).
Translate ==
    \E answers \in TranslatorAnswers :
        /\ call' = [op |-> "translate", answers |-> answers,
                    out |-> client_answers_to_pet_features(answers)]
        /\ prev' = NoCall
        /\ UNCHANGED <<dataset_file, engine, page, threads>>

\* The orders a caller can hold the keys of a desired vector in: the
\* translator's, the first two keys exchanged, and the reverse.
KeyOrders ==
    {PetFeatureIndex,
     <<PetFeatureIndex[2], PetFeatureIndex[1]>>
        \o SubSeq(PetFeatureIndex, 3, Len(PetFeatureIndex)),
     [j \in 1..Len(PetFeatureIndex) |->
         PetFeatureIndex[Len(PetFeatureIndex) + 1 - j]]}

\* The query proper of get_pet_recommendations (ml_models.py:248-261) for a
\* desired vector: frame it, search, map the rows found to records.  The
\* set of possible outcomes; a global that is still None has none of the
\* attributes used (AttributeError).
query_features(pet_desired_features, number_of_recommendations, knn, df, train_df) ==
    IF ~IsIndex(knn) THEN {[ok |-> FALSE, err |-> "AttributeError"]}
    ELSE {IF ~n.ok THEN n
          ELSE IF df = <<>> \/ train_df = <<>>
          THEN [ok |-> FALSE, err |-> "AttributeError"]
          ELSE MapRecommendations(n.ind, df[1], train_df[1]) :
            n \in kneighbors(knn[1],
                     preprocess_input_data(pet_desired_features),
                     number_of_recommendations)}

\* An engine client queries with a desired vector of its own: the
\* translator's vector for some answers, its keys held in some order.
QueryVector ==
    \E answers \in QueryAnswers, index \in KeyOrders, k \in 1..2 :
      \E out \in query_features(
                    [client_answers_to_pet_features(answers)
                        EXCEPT !.index = index],
                    k, knn_model, dogs_df, dogs_train_df) :
        /\ call' = [op |-> "query_vector", answers |-> answers,
                    index |-> index, k |-> k, ok |-> out.ok,
                    err |-> IF out.ok THEN "" ELSE out.err,
                    recs |-> IF out.ok THEN out.recs ELSE <<>>,
                    ind |-> IF out.ok THEN out.ind ELSE <<>>]
        /\ prev' = NoCall
        /\ UNCHANGED <<dataset_file, engine, page, threads>>

\* The attributes of a dog a client encodes: labels as the inventory holds
\* them (also an empty cell and labels that are no gender or size), an age
\* and a boolean attribute.
EncodeInputs ==
    [gender : {"Hembra", "Macho", "Desconocido", NaN},
     size : SeqToSet(SizeLabels) \cup {"Toy"},
     age : {3 * AnswerScale},
     good_with_cats : BOOLEAN]

\* The encoded features a client decodes: codes of the encodings, codes
\* that no label has (gender 2, size 5), fractional codes (0.5), and for
\* the boolean attribute 0, 0.3, 0.5, 0.7, 1 and 1.5.
DecodeInputs ==
    [is_male : {0, 20, 40, 10},
     size : {0, 20, 40, 60, 80, 100, 10},
     age : {3 * AnswerScale},
     good_with_cats : {0, 6, 10, 14, 20, 30}]

\* An engine client calls encode_non_numeric_features(input_data).
Encode ==
    \E input_data \in EncodeInputs :
      \E r \in {encode_non_numeric_features(input_data, dogs_df)} :
        /\ call' = [op |-> "encode", input |-> input_data, ok |-> r.ok,
                    err |-> IF r.ok THEN "" ELSE r.err,
                    out |-> IF r.ok THEN r.out ELSE <<>>]
        /\ prev' = NoCall
        /\ UNCHANGED <<dataset_file, engine, page, threads>>

\* An engine client calls decode_non_numeric_features(input_data), on
\* encoded features of its own or on what its last call encoded.
Decode ==
    \E input_data \in DecodeInputs
                        \cup {c.out : c \in {c \in {call} :
                                               c.op = "encode" /\ c.ok}} :
      \E r \in {decode_non_numeric_features(input_data, dogs_df)} :
        /\ call' = [op |-> "decode", input |-> input_data, ok |-> r.ok,
                    err |-> IF r.ok THEN "" ELSE r.err,
                    out |-> IF r.ok THEN r.out ELSE <<>>]
        /\ prev' = IF call.op = "encode" /\ call.ok /\ input_data = call.out
                   THEN call ELSE NoCall
        /\ UNCHANGED <<dataset_file, engine, page, threads>>

\* A frame a client holds: its rows and the dtype of its string columns,
\* "object" as pd.read_csv leaves them, "category" once load_dataset has
\* converted them.
ClientFrames ==
    {[rows |-> dataset_file, text_dtype |-> t] : t \in {"object", "category"}}

\* Lines 146-149 of preprocess_train_data: every object column of the frame
\* passed in is replaced, in that frame, by its conversion to category.
CoerceObjectColumns(frame) == [frame EXCEPT !.text_dtype = "category"]

\* An engine client calls preprocess_train_data(frame) on a frame of its
\* own: what its frame was and is, and whether the call raised.
PreprocessFrame ==
    \E frame \in ClientFrames :
      \E after \in {CoerceObjectColumns(frame)} :
        /\ call' = [op |-> "preprocess", before |-> frame, after |-> after,
                    ok |-> preprocess_train_data(after.rows).ok]
        /\ prev' = NoCall
        /\ UNCHANGED <<dataset_file, engine, page, threads>>

\* A slip: the means are filled in place, without the copy.
fill_features_with_means_in_place(input_data, means) ==
    IF means = <<>> THEN [ok |-> FALSE, err |-> "AssertionError"]
    ELSE LET filled ==
                 [f \in DOMAIN means[1] \cup DOMAIN input_data |->
                     IF f \in DOMAIN input_data THEN input_data[f]
                     ELSE means[1][f]]
         IN  [ok |-> TRUE, out |-> filled, means |-> <<filled>>]

\* fill_features_with_means(input_data), with __chars_means as the default:
\* a copy of the means in which every feature of the input is set to the
\* input's value (a feature the means do not have is added).  The value is
\* the Series returned and the means as the call leaves them.
fill_features_with_means(input_data, means) ==
    IF means = <<>> THEN [ok |-> FALSE, err |-> "AssertionError"]
    ELSE LET filled ==
                 [f \in DOMAIN means[1] \cup DOMAIN input_data |->
                     IF f \in DOMAIN input_data THEN input_data[f]
                     ELSE means[1][f]]
         IN  [ok |-> TRUE, out |-> filled, means |-> means]

\* The features a client fills: none, some or all of those of a desired
\* vector, or a feature the training frame does not have; values are
\* fractions, as the means are.
FillInputs ==
    {[f \in keys |-> [n |-> IF f \in DOMAIN PetFeatureValues(a)
                              THEN PetFeatureValues(a)[f] ELSE Unit,
                       d |-> Unit]] :
        a \in QueryAnswers,
        keys \in {{}, {"age"}, {"age", "size", "is_male"},
                  SeqToSet(PetFeatureIndex), {"is_sedentary"}}}

\* An engine client calls fill_features_with_means(input_data).
FillMeans ==
    \E input_data \in FillInputs :
      \E r \in {fill_features_with_means(input_data, chars_means)} :
        /\ chars_means' = IF r.ok THEN r.means ELSE chars_means
        /\ call' = [op |-> "fill", input |-> input_data, ok |-> r.ok,
                    out |-> IF r.ok THEN r.out ELSE <<>>]
        /\ prev' = NoCall
        /\ UNCHANGED <<dataset_file, knn_model, scaler_model, dogs_df,
                       dogs_train_df, page, threads>>

InitFeatures == InitCommon /\ dataset_file \in FeatureInventories

NextFeatures ==
    \/ Setup \/ Translate \/ QueryVector \/ Encode \/ Decode
    \/ PreprocessFrame \/ FillMeans

SpecFeatures == InitFeatures /\ [][NextFeatures]_vars

\* ----------------------------------------------- the recommendation page
\* A slip: the cats gate is forgotten.
CheckDogsGateOnly(ss) ==
    IF ~(ss.form_submitted \/ ss.next_recommendation
         \/ ss.previous_recommendation)
    THEN "idle"
    ELSE IF ~(ss.terms_and_conditions /\ ss.privacy_policy)
    THEN "terms_error"
    ELSE IF \E i \in DOMAIN ss.client_answers : ss.client_answers[i] = None
    THEN "missing_error"
    ELSE IF ss.client_answers[6] = 0
    THEN "warning"
    ELSE "success"

\* A slip: the completeness test is forgotten.
CheckWithoutCompleteness(ss) ==
    IF ~(ss.form_submitted \/ ss.next_recommendation
         \/ ss.previous_recommendation)
    THEN "idle"
    ELSE IF ~(ss.terms_and_conditions /\ ss.privacy_policy)
    THEN "terms_error"
    ELSE IF ss.client_answers[6] = 0 \/ ss.client_answers[7] = 0
    THEN "warning"
    ELSE "success"

\* A slip: the gate needs both incompatibilities instead of either.
CheckBothGates(ss) ==
    IF ~(ss.form_submitted \/ ss.next_recommendation
         \/ ss.previous_recommendation)
    THEN "idle"
    ELSE IF ~(ss.terms_and_conditions /\ ss.privacy_policy)
    THEN "terms_error"
    ELSE IF \E i \in DOMAIN ss.client_answers : ss.client_answers[i] = None
    THEN "missing_error"
    ELSE IF ss.client_answers[6] = 0 /\ ss.client_answers[7] = 0
    THEN "warning"
    ELSE "success"

\* check_form_submission: which of its returns is taken.
check_form_submission(ss) ==
    IF ~(ss.form_submitted \/ ss.next_recommendation
         \/ ss.previous_recommendation)
    THEN "idle"
    ELSE IF ~(ss.terms_and_conditions /\ ss.privacy_policy)
    THEN "terms_error"
    ELSE IF \E i \in DOMAIN ss.client_answers : ss.client_answers[i] = None
    THEN "missing_error"
    ELSE IF ss.client_answers[6] = 0 \/ ss.client_answers[7] = 0
    THEN "warning"
    ELSE "success"

\* show_recommendation_form: the widgets return the values the browser sent
\* with the last submit; the submit button returns True in the run its click
\* started.
show_recommendation_form(ss, trigger) ==
    [ss EXCEPT !.client_answers = form_values'.answers,
               !.terms_and_conditions = form_values'.terms,
               !.privacy_policy = form_values'.privacy,
               !.form_submitted = (trigger = "submit")]

\* show_navigation_section: each button returns True in the run its click
\* started.
show_navigation_section(ss, trigger) ==
    [ss EXCEPT !.previous_recommendation = (trigger = "previous"),
               !.next_recommendation = (trigger = "next")]

PrevDisabled(ss) == ss.current_pet_id <= 0

NextDisabled(ss) ==
    ss.current_pet_id >= Len(ss.pet_recommendations) - 1

\* What a run that ended before the navigation section leaves on screen.
NoNav(trigger, outcome, refit, queries) ==
    [trigger |-> trigger, outcome |-> outcome, refit |-> refit,
     queries |-> queries, displayed |-> <<>>, nav |-> FALSE,
     prev_enabled |-> FALSE, next_enabled |-> FALSE,
     sub_queries |-> IF trigger = "submit" THEN queries
                     ELSE run.sub_queries + queries,
     pending |-> 0]

\* A slip: only the next button is taken as pagination.
PaginatingNextOnly(ss) == ss.next_recommendation

\* The run was started by a navigation button: the stored result is reused.
Paginating(ss) == ss.next_recommendation \/ ss.previous_recommendation

\* list[i] of Python: a negative index counts from the end.
PyItem(list, i) == IF i < 0 THEN list[Len(list) + i + 1] ELSE list[i + 1]

\* A slip: only the upper end of the range is tested.
CursorBelowEnd(ss) == ss.current_pet_id < Len(ss.pet_recommendations)

\* The range test of lines 225-227, negated: the cursor is a position of
\* the result list.
CursorInRange(ss) ==
    /\ ss.current_pet_id >= 0
    /\ ss.current_pet_id < Len(ss.pet_recommendations)

\* get_and_show_pet_recommendations, for the session state ss on entry and
\* the outcome q of the query (unused when the run paginates).
get_and_show_pet_recommendations(ss, trigger, refit, q) ==
    LET paginating == Paginating(ss)
        queries    == IF paginating THEN 0 ELSE 1
    IN  IF ~paginating /\ ~q.ok
        THEN /\ session_state' = ss
             /\ run' = NoNav(trigger, "query_raised", refit, queries)
        ELSE LET ss1 == IF paginating THEN ss
                        ELSE [ss EXCEPT !.pet_recommendations = q.recs]
                 ss2 == show_navigation_section(ss1, trigger)
                 inside == CursorInRange(ss2)
             IN  /\ session_state' = ss2
                 /\ run' =
                      [trigger |-> trigger,
                       outcome |-> IF inside THEN "shown" ELSE "bug_error",
                       refit |-> refit, queries |-> queries,
                       displayed |->
                          IF inside
                          THEN <<PyItem(ss2.pet_recommendations,
                                        ss2.current_pet_id)>>
                          ELSE <<>>,
                       nav |-> TRUE,
                       prev_enabled |-> ~PrevDisabled(ss1),
                       next_enabled |-> ~NextDisabled(ss1),
                       sub_queries |-> IF trigger = "submit" THEN queries
                                       ELSE run.sub_queries + queries,
                       pending |-> 0]

\* main(): one run of the page script, for the session state ss the click's
\* callback left and the widget values the browser sent with the click.
\* init_session_state_variables finds every key set.
main(ss, trigger, widgets) ==
    \E g \in {setup_nn_models}, refit \in {dogs_train_df # <<>>} :
      /\ AssignGlobals(g)
      /\ \E sent \in widgets :
          /\ form_values' = sent
          /\ IF g.raised
             THEN /\ session_state' = ss
                  /\ run' = NoNav(trigger, "setup_raised", refit, 0)
             ELSE LET ss1 == show_recommendation_form(ss, trigger)
                      outcome == check_form_submission(ss1)
                  IN  IF outcome # "success"
                      THEN /\ session_state' = ss1
                           /\ run' = NoNav(trigger, outcome, refit, 0)
                      ELSE \E q \in get_pet_recommendations(
                                      ss1.client_answers,
                                      ss1.number_of_recommendations,
                                      g.knn_model, g.dogs_df,
                                      g.dogs_train_df) :
                              get_and_show_pet_recommendations(ss1, trigger,
                                                               refit, q)

\* The user fills the form in and presses ENVIAR: the on_click callback of
\* show_submit_button, then a run.
Submit ==
    /\ main([session_state EXCEPT !.form_submitted = TRUE,
                                  !.next_recommendation = FALSE,
                                  !.previous_recommendation = FALSE,
                                  !.current_pet_id = 0],
            "submit", FormInputs)
    /\ UNCHANGED <<dataset_file, client, threads>>

\* The user presses "Siguiente recomendacion" (rendered and enabled).
ClickNext ==
    /\ run.nav /\ run.next_enabled
    /\ main([session_state EXCEPT !.current_pet_id = @ + 1,
                                  !.next_recommendation = TRUE,
                                  !.previous_recommendation = FALSE],
            "next", {form_values})
    /\ UNCHANGED <<dataset_file, client, threads>>

\* The user presses "Recomendacion anterior" (rendered and enabled).
ClickPrevious ==
    /\ run.nav /\ run.prev_enabled
    /\ main([session_state EXCEPT !.current_pet_id = @ - 1,
                                  !.next_recommendation = FALSE,
                                  !.previous_recommendation = TRUE],
            "previous", {form_values})
    /\ UNCHANGED <<dataset_file, client, threads>>

Init == InitCommon /\ dataset_file \in PageInventories

Next == Submit \/ ClickNext \/ ClickPrevious

Spec == Init /\ [][Next]_vars

\* ------------------------------------------ clicks faster than the script
\* A click that arrives while the script runs makes the server stop the
\* run at the next st.* call and start the run of the new click; the
\* browser keeps the buttons of the last render that ended until then, and
\* the callback of a button runs whether or not the script would render it
\* enabled now ("no le des tan rapido a los botones", lines 228-231).
\*
\* What a run that was stopped leaves on screen: the last render.
Stopped(trigger, refit, queries) ==
    [run EXCEPT !.trigger = trigger, !.outcome = "interrupted",
                !.refit = refit, !.queries = queries,
                !.sub_queries = IF trigger = "submit" THEN queries
                                ELSE @ + queries,
                !.pending = @ + 1]

\* main() stopped by the next click, either at the st.* call that reports
\* the outcome of check_form_submission or, when the run made the query, at
\* the st.write that follows it (line 220).
main_stopped(ss, trigger, widgets) ==
    \E g \in {setup_nn_models}, refit \in {dogs_train_df # <<>>} :
      /\ ~g.raised
      /\ AssignGlobals(g)
      /\ \E sent \in widgets :
          /\ form_values' = sent
          /\ LET ss1 == show_recommendation_form(ss, trigger)
             IN  \/ /\ session_state' = ss1
                    /\ run' = Stopped(trigger, refit, 0)
                 \/ /\ check_form_submission(ss1) = "success"
                    /\ ~Paginating(ss1)
                    /\ \E q \in get_pet_recommendations(
                                    ss1.client_answers,
                                    ss1.number_of_recommendations,
                                    g.knn_model, g.dogs_df,
                                    g.dogs_train_df) :
                          /\ q.ok
                          /\ session_state' =
                                [ss1 EXCEPT !.pet_recommendations = q.recs]
                          /\ run' = Stopped(trigger, refit, 1)

\* What the widgets of the form hold when ENVIAR is pressed in a session of
\* quick clicks: two questionnaires that pass and a gated one, with the
\* privacy box checked.
QuickInputs ==
    [answers : {BaseAnswers[1], BaseAnswers[2], BaseAnswers[3]},
     terms : BOOLEAN, privacy : {TRUE}]

\* ENVIAR is pressed and the run ends before the next click.
QuickSubmit ==
    /\ main([session_state EXCEPT !.form_submitted = TRUE,
                                  !.next_recommendation = FALSE,
                                  !.previous_recommendation = FALSE,
                                  !.current_pet_id = 0],
            "submit", QuickInputs)
    /\ UNCHANGED <<dataset_file, client, threads>>

\* ENVIAR is pressed and another click follows before the run has ended.
StoppedSubmit ==
    /\ run.pending < MaxPending
    /\ main_stopped([session_state EXCEPT !.form_submitted = TRUE,
                                          !.next_recommendation = FALSE,
                                          !.previous_recommendation = FALSE,
                                          !.current_pet_id = 0],
                    "submit", QuickInputs)
    /\ UNCHANGED <<dataset_file, client, threads>>

\* "Siguiente recomendacion", enabled in the last render, is pressed and
\* another click follows before the run has ended.
StoppedNext ==
    /\ run.pending < MaxPending
    /\ run.nav /\ run.next_enabled
    /\ main_stopped([session_state EXCEPT !.current_pet_id = @ + 1,
                                          !.next_recommendation = TRUE,
                                          !.previous_recommendation = FALSE],
                    "next", {form_values})
    /\ UNCHANGED <<dataset_file, client, threads>>

\* The same for "Recomendacion anterior".
StoppedPrevious ==
    /\ run.pending < MaxPending
    /\ run.nav /\ run.prev_enabled
    /\ main_stopped([session_state EXCEPT !.current_pet_id = @ - 1,
                                          !.next_recommendation = FALSE,
                                          !.previous_recommendation = TRUE],
                    "previous", {form_values})
    /\ UNCHANGED <<dataset_file, client, threads>>

NextRapid ==
    \/ QuickSubmit \/ ClickNext \/ ClickPrevious
    \/ StoppedSubmit \/ StoppedNext \/ StoppedPrevious

SpecRapid == Init /\ [][NextRapid]_vars

\* ------------------------------------------------ properties of the page
\* The last run was started by ENVIAR and got past setup_nn_models.
Submitted == run.trigger = "submit" /\ run.outcome # "setup_raised"

Gated(answers) == answers[6] = 0 \/ answers[7] = 0

Incomplete(answers) == \E i \in 1..10 : answers[i] = None

BoxesChecked == form_values.terms /\ form_values.privacy

\* The outcomes of a run in which check_form_submission returned False.
Rejected == {"terms_error", "missing_error", "warning"}

\* C1: a submission with answers[6] = 0 or answers[7] = 0 is rejected by
\* check_form_submission and the neighbour query is not invoked for it,
\* whatever the other answers and the two checkboxes are.
C1_GateShortCircuits ==
    (Submitted /\ Gated(form_values.answers))
        => /\ run.outcome \in Rejected
           /\ run.queries = 0
           /\ run.sub_queries = 0
           /\ run.displayed = <<>>

C1_Witness ==
    /\ Submitted /\ BoxesChecked
    /\ form_values.answers[7] = 0 /\ form_values.answers[6] # 0
    /\ ~Incomplete(form_values.answers)
    /\ run.outcome = "warning"
    /\ Len(session_state.pet_recommendations) > 0

\* C2 as stated: a submission with a missing answer at an index 1..10 gets
\* the "answer all questions" error, and no query.
C2_Original ==
    (Submitted /\ Incomplete(form_values.answers))
        => run.outcome = "missing_error" /\ run.queries = 0

\* C2, amended: a submission with a missing answer at an index 1..10 is
\* rejected without a query; the error is "answer all questions" when both
\* boxes are checked and the terms/privacy error when one is not.
C2_MissingAnswerRejected ==
    (Submitted /\ Incomplete(form_values.answers))
        => /\ run.queries = 0
           /\ run.displayed = <<>>
           /\ run.outcome = IF BoxesChecked THEN "missing_error"
                            ELSE "terms_error"

C2_Witness ==
    /\ Submitted /\ BoxesChecked
    /\ form_values.answers[10] = None
    /\ ~Gated(form_values.answers)
    /\ run.outcome = "missing_error"

\* C3 as stated: a submission with answers[6] = 0 gets the incompatibility
\* warning whatever else the form holds.
C3_Original ==
    (Submitted /\ form_values.answers[6] = 0) => run.outcome = "warning"

\* C3, amended: a submission with answers[6] = 0 never reaches the query;
\* it gets the incompatibility warning when both boxes are checked and no
\* answer is missing, whatever the values of the other answers; otherwise
\* the terms/privacy error (a box unchecked) or, failing that, the "answer
\* all questions" error comes first.
C3_DogsGateAfterValidation ==
    (Submitted /\ form_values.answers[6] = 0)
        => /\ run.queries = 0
           /\ run.outcome =
                IF ~BoxesChecked THEN "terms_error"
                ELSE IF Incomplete(form_values.answers) THEN "missing_error"
                ELSE "warning"

C3_Witness ==
    /\ Submitted /\ BoxesChecked
    /\ form_values.answers[6] = 0 /\ form_values.answers[7] # 0
    /\ ~Incomplete(form_values.answers)
    /\ run.outcome = "warning"

\* C4: pagination never queries again: a run started by next/previous
\* leaves pet_recommendations as it was and moves current_pet_id by one, and
\* the query is made exactly once for a submission whose result is shown.
C4_PaginationReusesResult ==
    /\ [][run'.trigger \in {"next", "previous"}
            => /\ session_state'.pet_recommendations
                    = session_state.pet_recommendations
               /\ run'.queries = 0
               /\ session_state'.current_pet_id
                    = session_state.current_pet_id
                        + (IF run'.trigger = "next" THEN 1 ELSE -1)]_vars
    /\ [](run.nav => run.sub_queries = 1)

C4_Witness ==
    /\ run.trigger = "previous"
    /\ run.outcome = "shown"
    /\ session_state.current_pet_id = 1
    /\ run.sub_queries = 1

\* C5: pagination never fits the index again: a run started by next or
\* previous does not load the inventory and refit an engine that an earlier
\* run of the session has fitted.
C5_NoRefitOnPagination ==
    run.trigger \in {"next", "previous"} => ~run.refit

\* ---------------------------------------------- properties of the engine
\* The engine is in state Fit: a setup has assigned every global.
Fitted == knn_model # <<>> /\ dogs_df # <<>> /\ dogs_train_df # <<>>

TrainRows == dogs_train_df[1]

\* The distance of every row of the training frame to the desired vector
\* of the last query.
QueryDist ==
    Distances(PetFeatureValues(call.answers),
              [r \in 1..Len(TrainRows) |-> TrainRows[r].x])

IsTrainId(id) == \E r \in 1..Len(TrainRows) : TrainRows[r].id = id

\* The position in the training frame of the row with an id.
PosOf(id) == CHOOSE r \in 1..Len(TrainRows) : TrainRows[r].id = id

\* The distance of the j-th record of a result.
RecDist(recs, j) == QueryDist[PosOf(recs[j].id)]

Ids(recs) == {recs[j].id : j \in 1..Len(recs)}

\* The k-th smallest of the distances (with repetitions).
KthSmallest(k) ==
    CHOOSE d \in Range(QueryDist) :
        /\ Cardinality({r \in DOMAIN QueryDist : QueryDist[r] < d}) < k
        /\ Cardinality({r \in DOMAIN QueryDist : QueryDist[r] <= d}) >= k

\* C6: on a fitted engine, a query with 1 <= k <= number of fitted rows
\* returns exactly k records, which are k distinct training rows such that no
\* row left out is nearer than a row returned, nearest first.
C6_QueryReturnsKNearest ==
    (call.op = "query" /\ Fitted /\ call.k >= 1 /\ call.k <= Len(TrainRows))
        => /\ call.ok
           /\ Len(call.recs) = call.k
           /\ \A j \in 1..Len(call.recs) : IsTrainId(call.recs[j].id)
           /\ Cardinality(Ids(call.recs)) = call.k
           /\ \A i, j \in 1..Len(call.recs) :
                 i < j => RecDist(call.recs, i) <= RecDist(call.recs, j)
           /\ \A r \in 1..Len(TrainRows) :
                 TrainRows[r].id \notin Ids(call.recs)
                   => \A j \in 1..Len(call.recs) :
                         RecDist(call.recs, j) <= QueryDist[r]

C6_Witness ==
    /\ call.op = "query" /\ Fitted /\ call.ok
    /\ call.k = 3 /\ Len(TrainRows) = 4
    /\ RecDist(call.recs, 1) < RecDist(call.recs, 3)

ConsecutiveK ==
    /\ call.op = "query" /\ prev.op = "query" /\ Fitted
    /\ call.ok /\ prev.ok
    /\ call.answers = prev.answers
    /\ call.k = prev.k + 1

C9_KBounds ==
    (call.op = "query" /\ Fitted)
        => /\ call.k = Len(TrainRows)
                => call.ok /\ Len(call.recs) = Len(TrainRows)
           /\ (call.k > Len(TrainRows) \/ call.k < 1)
                => ~call.ok /\ call.err = "ValueError" /\ call.recs = <<>>

C9_Witness ==
    /\ call.op = "query" /\ Fitted
    /\ call.k = Len(TrainRows) + 1
    /\ ~call.ok

\* C10: a query made before any setup (state Unfit) raises (the assertion
\* on the model) and returns no record; a query returns records only when
\* the engine is in state Fit.
C10_QueryNeedsFit ==
    /\ (call.op = "query" /\ knn_model = <<>>)
          => ~call.ok /\ call.err = "AssertionError" /\ call.recs = <<>>
    /\ (call.op = "query" /\ (call.ok \/ call.recs # <<>>)) => Fitted

C10_Witness ==
    /\ call.op = "query" /\ knn_model = <<>>
    /\ call.k = 1
    /\ ~call.ok

\* C11: every record a query returns is the row of the full inventory that
\* carries the id of the matched training row: it is a row the filter kept
\* (size present, id not denylisted), and the training row at position i is
\* returned as the inventory row with that row's id, not as inventory row i.
C11_RecordsLookedUpById ==
    (call.op = "query" /\ call.ok)
        => /\ Len(call.ind) = Len(call.recs)
           /\ \A j \in 1..Len(call.recs) :
                 /\ call.ind[j] \in 1..Len(TrainRows)
                 /\ call.recs[j].id = TrainRows[call.ind[j]].id
                 /\ call.recs[j] \in Range(dogs_df[1])
                 /\ KeptRow(call.recs[j])

\* A matched training row whose position in the inventory is another one.
C11_Witness ==
    /\ call.op = "query" /\ call.ok
    /\ \E j \in 1..Len(call.recs) :
          /\ dogs_df[1][call.ind[j]].id # call.recs[j].id
          /\ ~KeptRow(dogs_df[1][call.ind[j]])

\* ------------------------------------------ properties of the translator
\* The last call translated a complete answer sequence.
Translated ==
    /\ call.op = "translate"
    /\ \A i \in 0..10 : call.answers[i] # None

\* The columns of the fitted training matrix.
FittedColumns == knn_model[1].feature_names_in

PassThrough ==
    [is_male |-> 1, can_travel |-> 0, urgent_adoption |-> 0,
     is_vaccinated |-> 5, is_sterilized |-> 5, has_passport |-> 5,
     good_with_children |-> 8, good_with_cats |-> 7, good_with_dogs |-> 6]

\* C12: for a complete answer sequence the translator returns a vector
\* whose keys are exactly the columns of the fitted training matrix, each
\* once, and whose pass-through features equal their answer: is_male = a[1],
\* can_travel = urgent_adoption = a[0], is_vaccinated = is_sterilized =
\* has_passport = a[5], good_with_children = a[8], good_with_cats = a[7],
\* good_with_dogs = a[6].
C12_KeysAndPassThrough ==
    Translated
        => /\ call.out.ok
           /\ call.out.missing = {}
           /\ Cardinality(SeqToSet(call.out.index)) = Len(call.out.index)
           /\ DOMAIN call.out.values = SeqToSet(call.out.index)
           /\ Fitted => SeqToSet(call.out.index) = SeqToSet(FittedColumns)
           /\ \A f \in DOMAIN PassThrough :
                 call.out.values[f] = AnswerScale * call.answers[PassThrough[f]]

C12_Witness ==
    /\ Translated /\ Fitted /\ call.out.ok
    /\ call.answers[6] # call.answers[7]
    /\ call.answers[1] # call.answers[5]
    /\ call.answers \in CompleteAnswers

\* The features that are a weighted sum of answers.
Derived == SeqToSet(PetFeatureIndex) \ DOMAIN PassThrough

AllOnes == [j \in 0..10 |-> AnswerScale]

AllZero == [j \in 0..10 |-> 0]

\* C13: every derived feature is a combination of answers with weights
\* that are not negative and sum to exactly 1 (the answer sequence that is 1
\* at one index gives that index's weight, the sequence of ones gives the
\* sum of the weights, the sequence of zeros shows there is no constant
\* term); age = 0.6 a[3] + 0.4 a[4] and size = 0.3 a[2] + 0.3 a[3] +
\* 0.3 a[4] + 0.1 a[9]; for answers in [0, 1] every feature is in [0, 1].
C13_ConvexWeights ==
    Translated
        => LET a == call.answers
               v == call.out.values
           IN  /\ 10 * v.age = AnswerScale * (6 * a[3] + 4 * a[4])
               /\ 10 * v.size
                     = AnswerScale * (3 * a[2] + 3 * a[3] + 3 * a[4] + a[9])
               /\ (\A i \in 0..10 : a[i] \in 0..AnswerScale)
                     => \A f \in DOMAIN v : v[f] \in 0..Unit
               /\ a = AllOnes => \A f \in Derived : v[f] = Unit
               /\ a = AllZero => \A f \in Derived : v[f] = 0
               /\ \A i \in 0..10 :
                     a = UnitAnswers(i) => \A f \in Derived : v[f] >= 0

C13_Witness ==
    /\ Translated /\ call.out.ok
    /\ call.answers = AllOnes
    /\ call.out.values.is_sociable = Unit
    /\ call.out.values.is_fearful = Unit

\* C14 as stated: the desired vector has exactly 19 features and the fitted
\* feature space has exactly 19 dimensions.
C14_Original ==
    /\ (Translated /\ call.out.ok) => Len(call.out.index) = 19
    /\ Fitted => Len(FittedColumns) = 19

\* C14, amended: the desired vector has exactly 17 features and the fitted
\* feature space has exactly 17 dimensions: age, is_male, size and the 14
\* boolean columns left after is_dewormed, is_identified, has_microchip,
\* is_affectionate and is_sedentary are dropped.
C14_SeventeenFeatures ==
    /\ (Translated /\ call.out.ok)
          => /\ Len(call.out.index) = 17
             /\ Cardinality(DOMAIN call.out.values) = 17
    /\ Fitted
          => /\ Len(FittedColumns) = 17
             /\ Cardinality(SeqToSet(FittedColumns)) = 17
             /\ \A r \in 1..Len(knn_model[1].fit_X) :
                   DOMAIN knn_model[1].fit_X[r] = SeqToSet(FittedColumns)
             /\ \A r \in 1..Len(TrainRows) :
                   Cardinality(DOMAIN TrainRows[r].x) = 17

C14_Witness ==
    /\ Translated /\ call.out.ok /\ Fitted
    /\ Len(knn_model[1].fit_X) >= 2
    /\ Len(call.out.index) = Len(FittedColumns)

\* C15: a query accepts a desired vector whose keys are the fitted columns
\* in any order: whatever the order of the keys, a query with 1 <= k <=
\* number of fitted rows succeeds, with a result the query with the keys in
\* the fitted order can give (each value is compared with the training
\* column of its name).
C15_AnyKeyOrder ==
    (/\ call.op = "query_vector" /\ Fitted
     /\ SeqToSet(call.index) = SeqToSet(FittedColumns)
     /\ call.k <= Len(TrainRows))
        => /\ call.ok
           /\ [ok |-> TRUE, ind |-> call.ind, recs |-> call.recs]
                \in get_pet_recommendations(call.answers, call.k, knn_model,
                                            dogs_df, dogs_train_df)

\* -------------------------------------------- properties of the encoder
\* The last two calls encoded a dog's attributes and decoded the result.
RoundTrip ==
    /\ call.op = "decode" /\ prev.op = "encode"
    /\ prev.ok /\ call.input = prev.out

GenderCode == [Hembra |-> 0, Macho |-> 1]

SizeCode ==
    [Enano |-> 0, Pequeno |-> 1, Mediano |-> 2, Grande |-> 3, Gigante |-> 4]

\* C16: the encodings are the maps gender {Hembra: 0, Macho: 1} and size
\* {Enano: 0, Pequeno: 1, Mediano: 2, Grande: 3, Gigante: 4}, which are
\* injective, and decoding the code of a label of either domain gives the
\* label back, in the inverse dicts and through encode_non_numeric_features
\* and decode_non_numeric_features.
C16_CategoryRoundTrip ==
    /\ \A x \in DOMAIN PET_GENDER_ENCODING :
          INV_PET_GENDER_ENCODING[PET_GENDER_ENCODING[x]] = x
    /\ \A x \in DOMAIN PET_SIZE_ENCODING :
          INV_PET_SIZE_ENCODING[PET_SIZE_ENCODING[x]] = x
    /\ (call.op = "encode" /\ call.ok)
          => /\ call.out.is_male = AnswerScale * GenderCode[call.input.gender]
             /\ call.out.size = AnswerScale * SizeCode[call.input.size]
    /\ RoundTrip
          => /\ call.ok
             /\ call.out.gender = prev.input.gender
             /\ call.out.size = prev.input.size

C16_Witness ==
    /\ RoundTrip /\ call.ok
    /\ prev.input.gender = "Macho"
    /\ prev.input.size = "Gigante"
    /\ call.input.size = 4 * AnswerScale

\* The last call decoded, on an engine that holds an inventory.
Decoded == call.op = "decode" /\ dogs_df # <<>>

\* C17: decoding is total: a code that is not in the inverse mapping (size
\* code 5, gender code 2, a fractional code such as 0.5) decodes to the
\* placeholder "Desconocido" and the call does not fail.
C17_DecodingTotal ==
    Decoded
        => /\ call.ok
           /\ call.input.is_male \notin {0, AnswerScale}
                 => call.out.gender = "Desconocido"
           /\ call.input.size \notin {AnswerScale * c : c \in 0..4}
                 => call.out.size = "Desconocido"

\* The last call encoded, on an engine that holds an inventory.
Encoded == call.op = "encode" /\ dogs_df # <<>>

\* A row of the inventory file that the filter keeps has a gender or a size
\* that is not a key of its encoding.
BadTrainingRow ==
    \E r \in 1..Len(dataset_file) :
        /\ KeptRow(dataset_file[r])
        /\ \/ dataset_file[r].gender \notin {"Hembra", "Macho"}
           \/ dataset_file[r].size \notin SeqToSet(SizeLabels)

\* C18: encoding a gender or a size that is not a key of its mapping fails
\* (KeyError in encode_non_numeric_features, ValueError in
\* preprocess_train_data) and produces no code: the encoder returns nothing,
\* a setup on an inventory with such a row among those it encodes raises
\* and leaves no training matrix, and no training row ever holds a gender
\* or size code that is not a code of the mapping.
C18_UnknownCategoryFails ==
    /\ (Encoded /\ (\/ call.input.gender \notin {"Hembra", "Macho"}
                     \/ call.input.size \notin SeqToSet(SizeLabels)))
          => ~call.ok /\ call.err = "KeyError" /\ call.out = <<>>
    /\ (call.op = "setup" /\ BadTrainingRow)
          => ~call.ok /\ dogs_train_df = <<>>
    /\ dogs_train_df # <<>>
          => \A r \in 1..Len(TrainRows) :
                /\ TrainRows[r].x["is_male"].n \in {0, 1}
                /\ TrainRows[r].x["size"].n \in 0..4
                /\ TrainRows[r].x["size"].n
                      <= TrainRows[r].x["size"].d

C18_Witness ==
    /\ call.op = "setup" /\ ~call.ok
    /\ \E r \in 1..Len(dataset_file) :
          KeptRow(dataset_file[r]) /\ dataset_file[r].gender = NaN
    /\ \E r \in 1..Len(dataset_file) :
          KeptRow(dataset_file[r]) /\ dataset_file[r].gender = "Hembra"

\* C19: a boolean attribute is encoded as int(bool(value)) and decoded as
\* bool(round(value)): True is encoded as 1 and False as 0, decoding the
\* code of a boolean gives it back, and a fractional value in [0, 1] decodes
\* to True exactly when it rounds to 1, that is when it is above 0.5 (0.3
\* and 0.5 decode to False, 0.7 to True).
C19_BooleanCodec ==
    /\ (Encoded /\ call.ok)
          => call.out.good_with_cats
                = (IF call.input.good_with_cats THEN AnswerScale ELSE 0)
    /\ RoundTrip
          => call.ok /\ call.out.good_with_cats = prev.input.good_with_cats
    /\ (Decoded /\ call.ok /\ call.input.good_with_cats \in 0..AnswerScale)
          => call.out.good_with_cats
                = (2 * call.input.good_with_cats > AnswerScale)

C19_Witness ==
    /\ Decoded /\ call.ok
    /\ call.input.good_with_cats = 6
    /\ call.out.good_with_cats = FALSE

\* ------------------------------------------------ properties of the refit
\* What every query of the engine clients can return, as the globals are.
QueryOutcomes(knn, df, train_df) ==
    [q \in QueryAnswers \X (1..MaxK) |->
        get_pet_recommendations(q[1], q[2], knn, df, train_df)]

KeptPositions(df) ==
    {r \in 1..Len(df) : df[r].size # NaN /\ df[r].id \notin Denylist}

\* n_neighbors of the pickled model.
NNeighbors == load_model.n_neighbors

\* C21: when fewer than n_neighbors rows of the inventory pass the filter,
\* setup_nn_models() raises, and no query is answered while the inventory
\* the engine holds has fewer than n_neighbors rows that pass the filter.
C21_InsufficientDataRejected ==
    /\ (call.op = "setup"
          /\ Cardinality(KeptPositions(dataset_file)) < NNeighbors)
         => ~call.ok
    /\ (call.op = "query" /\ call.ok /\ dogs_df # <<>>)
         => Cardinality(KeptPositions(dogs_df[1])) >= NNeighbors

\* ------------------------------------------- refits on a changing inventory
\* The files the shelter publishes one after the other: one row that passes
\* the filter (dogs 18, 19), the same with a row added whose gender cell is
\* empty (dogs 18..20), a file with a row without size and the denylisted
\* dog (dogs 3..6), and an empty file.
RefitInventories ==
    {Inventory(18, 2), Inventory(18, 3), Inventory(3, 4), Inventory(0, 0)}

\* The shelter replaces the inventory file.
RefreshInventory ==
    /\ dataset_file' \in RefitInventories \ {dataset_file}
    /\ call' = [op |-> "refresh"]
    /\ prev' = NoCall
    /\ UNCHANGED <<engine, page, threads>>

\* An engine client calls retrain_knn_model(dogs_df=load_dataset(path)):
\* the global model is fitted in place on the frame passed in, the frame,
\* the scaler and the means are returned, and __dogs_df, __dogs_train_df,
\* __scaler_model and __chars_means are left as they are.
RetrainOn ==
    \E r \in {IF ~IsIndex(knn_model)
               THEN [ok |-> FALSE, err |-> "AssertionError"]
               ELSE retrain_knn_model(knn_model[1],
                                      load_dataset(dataset_file))} :
        /\ knn_model' = IF r.ok THEN <<r.knn>> ELSE knn_model
        /\ call' = [op |-> "retrain_on", ok |-> r.ok,
                    err |-> IF r.ok THEN "" ELSE r.err,
                    train |-> IF r.ok THEN <<r.train>> ELSE <<>>,
                    scaler |-> IF r.ok THEN <<r.scaler>> ELSE <<>>,
                    means |-> IF r.ok THEN <<r.means>> ELSE <<>>]
        /\ prev' = NoCall
        /\ UNCHANGED <<dataset_file, scaler_model, chars_means, dogs_df,
                       dogs_train_df, page, threads>>

InitRefit == InitCommon /\ dataset_file \in RefitInventories

NextRefit == Setup \/ Query \/ Retrain \/ RetrainOn \/ RefreshInventory

SpecRefit == InitRefit /\ [][NextRefit]_vars

\* The index, the training frame and the inventory the engine holds are
\* those of one fit: the training frame is the preprocessed inventory and
\* the index holds that frame's rows.
Coherent ==
    /\ Fitted
    /\ \E pre \in {preprocess_train_data(dogs_df[1])} :
          /\ pre.ok
          /\ dogs_train_df[1] = pre.train
          /\ knn_model[1].fit_X = [r \in 1..Len(pre.train) |-> pre.train[r].x]

\* C22: whatever fits and refits came before, on whatever inventories, a
\* query that is answered finds the index, the training frame and the
\* inventory of one and the same fit.
C22_QueryUsesLatestFit ==
    (call.op = "query" /\ call.ok) => Coherent

\* ---------------------------------------- several sessions on one server
\* The server runs the page script of every session in a thread of one
\* process; src.ml_models is imported once, so its globals are those of
\* every session.  A script run is followed statement by statement through
\* setup_nn_models and up to the query.

\* What a thread finds in, or leaves in, the globals a query reads.
EngineView == [knn |-> knn_model, df |-> dogs_df, train |-> dogs_train_df]

\* A session starts a script run: main() reaches line 53-54 of
\* setup_nn_models, __knn_model = load_model(path).
SessionLoadModel(s) ==
    /\ threads[s].pc \in {"idle", "ready", "queried"}
    /\ knn_model' = <<load_model>>
    /\ threads' = [threads EXCEPT ![s].pc = "model", ![s].ran_on = <<>>]
    /\ UNCHANGED <<dataset_file, scaler_model, chars_means, dogs_df,
                   dogs_train_df, client, page>>

\* Line 57-58: __dogs_df = load_dataset(path).
SessionLoadDataset(s) ==
    /\ threads[s].pc = "model"
    /\ dogs_df' = <<load_dataset(dataset_file)>>
    /\ threads' = [threads EXCEPT ![s].pc = "dataset"]
    /\ UNCHANGED <<dataset_file, knn_model, scaler_model, chars_means,
                   dogs_train_df, client, page>>

\* Line 61-63: retrain_knn_model(__knn_model, __dogs_df) on what the
\* globals hold now, then the assignment of the other three globals.  When
\* it raises the run ends.
SessionFit(s) ==
    /\ threads[s].pc = "dataset"
    /\ \E r \in {retrain_knn_model(knn_model[1], dogs_df[1])} :
        IF r.ok
        THEN /\ knn_model' = <<r.knn>>
             /\ dogs_train_df' = <<r.train>>
             /\ scaler_model' = <<r.scaler>>
             /\ chars_means' = <<r.means>>
             /\ threads' = [threads EXCEPT
                              ![s].pc = "ready",
                              ![s].fitted = <<[knn |-> <<r.knn>>,
                                              df |-> dogs_df,
                                              train |-> <<r.train>>]>>]
        ELSE /\ threads' = [threads EXCEPT ![s].pc = "idle"]
             /\ UNCHANGED <<knn_model, dogs_train_df, scaler_model,
                            chars_means>>
    /\ UNCHANGED <<dataset_file, dogs_df, client, page>>

\* The run reaches get_pet_recommendations(answers, k), which takes the
\* three globals as they are (lines 230-243) and answers from them.
SessionQuery(s) ==
    /\ threads[s].pc = "ready"
    /\ \E answers \in QueryAnswers, k \in 1..NNeighbors :
        \E out \in get_pet_recommendations(answers, k, knn_model, dogs_df,
                                           dogs_train_df) :
          /\ call' = [op |-> "session_query", session |-> s,
                      answers |-> answers, k |-> k, ok |-> out.ok,
                      recs |-> IF out.ok THEN out.recs ELSE <<>>]
          /\ prev' = NoCall
    /\ threads' = [threads EXCEPT ![s].pc = "queried",
                                  ![s].ran_on = <<EngineView>>]
    /\ UNCHANGED <<dataset_file, engine, page>>

InitSessions == InitCommon /\ dataset_file \in RefitInventories

NextSessions ==
    \E s \in Sessions :
        \/ SessionLoadModel(s)
        \/ SessionLoadDataset(s)
        \/ SessionFit(s)
        \/ SessionQuery(s)

SpecSessions == InitSessions /\ [][NextSessions]_vars

\* C23: under every interleaving, the index, the training frame and the
\* inventory a session's query runs against are those the session's own
\* setup fitted.
C23_SessionsIsolated ==
    \A s \in Sessions :
        threads[s].pc = "queried" => threads[s].ran_on = threads[s].fitted

\* ------------------------------------------------- the pretrained artifact
\* What the pickle file at a path can hold: a NearestNeighbors with some
\* n_neighbors and algorithm, fitted when it was trained on the first rows
\* of the list, or an object of another class (a torch module, which
\* load_model also serves, or a scaler).
PickledModels ==
    {KnnFit([n_neighbors |-> n, algorithm |-> a, fit_X |-> <<>>,
             feature_names_in |-> <<>>],
            preprocess_train_data(ArtifactInventory).train) :
        n \in {2, 5}, a \in {"auto", "brute", "kd_tree"}}
    \cup {[class |-> "torch.nn.Module"], [class |-> "MinMaxScaler"]}

\* A slip: the parameters of a NearestNeighbors are not looked at.
load_model_unchecked(model) == [ok |-> TRUE, model |-> model]

\* load_model(model_path), for the object the file unpickles to: the two
\* asserts apply to a NearestNeighbors only, any other object is returned.
load_model_from(model) ==
    IF IsNearestNeighbors(model)
         /\ (model.n_neighbors # 2 \/ model.algorithm # "auto")
    THEN [ok |-> FALSE, err |-> "AssertionError"]
    ELSE [ok |-> TRUE, model |-> model]

\* setup_nn_models(knn_model_path=...): the globals after the call and
\* whether it raised.  __knn_model is bound before the isinstance assert of
\* line 55, so an object of another class stays in the global.
setup_nn_models_from(model) ==
    LET loaded == load_model_from(model)
        df     == load_dataset(dataset_file)
        kept   == [raised |-> TRUE, knn_model |-> knn_model,
                   dogs_df |-> dogs_df, dogs_train_df |-> dogs_train_df,
                   scaler_model |-> scaler_model,
                   chars_means |-> chars_means]
    IN  IF ~loaded.ok THEN kept
        ELSE IF ~IsNearestNeighbors(model)
        THEN [kept EXCEPT !.knn_model = <<model>>]
        ELSE LET fit == retrain_knn_model(model, df)
             IN  IF fit.ok
                 THEN [raised |-> FALSE, knn_model |-> <<fit.knn>>,
                       dogs_df |-> <<df>>, dogs_train_df |-> <<fit.train>>,
                       scaler_model |-> <<fit.scaler>>,
                       chars_means |-> <<fit.means>>]
                 ELSE [kept EXCEPT !.knn_model = <<model>>,
                                   !.dogs_df = <<df>>]

\* An engine client calls load_model(path).
LoadModel ==
    \E model \in PickledModels :
        /\ call' = [op |-> "load_model", model |-> model,
                    out |-> load_model_from(model)]
        /\ prev' = NoCall
        /\ UNCHANGED <<dataset_file, engine, page, threads>>

\* An engine client calls setup_nn_models(knn_model_path=path).
SetupFrom ==
    \E model \in PickledModels :
      \E g \in {setup_nn_models_from(model)} :
        /\ AssignGlobals(g)
        /\ call' = [op |-> "setup_from", model |-> model, ok |-> ~g.raised]
        /\ prev' = NoCall
        /\ UNCHANGED <<dataset_file, page, threads>>

InitLoader == InitCommon /\ dataset_file \in RefitInventories

NextLoader == LoadModel \/ SetupFrom \/ Query

SpecLoader == InitLoader /\ [][NextLoader]_vars

\* The search algorithms of NearestNeighbors, all of them exact.
ExactAlgorithms == {"auto", "brute", "kd_tree", "ball_tree"}

\* An artifact the engine must refuse.
InvalidArtifact(model) ==
    \/ ~IsNearestNeighbors(model)
    \/ model.n_neighbors # 2
    \/ model.algorithm \notin ExactAlgorithms

C25_InventoryNotMutated ==
    [][/\ call'.op = "preprocess" => call'.after = call'.before
       /\ call'.op = "query" => dogs_df' = dogs_df]_vars

\* ------------------------------------------------------ the training frame
\* The ids the spec lists as known to be corrupt.
CorruptIds ==
    {2023, 8706, 11011, 11221, 11334, 12385, 12541, 12780, 13156, 13377,
     13378}

\* The positions of the inventory rows that have a size and an id that is
\* not listed, in ascending order.
EligiblePositions(df) ==
    {p \in 1..Len(df) : df[p].size # NaN /\ df[p].id \notin CorruptIds}

NthEligible(df, r) ==
    CHOOSE p \in EligiblePositions(df) :
        Cardinality({q \in EligiblePositions(df) : q <= p}) = r

\* C26: after a fit, the rows of the training frame are, one for one and in
\* the inventory's order, the inventory rows that have a size and an id that
\* is not on the denylist, each under its own id; listed ids the inventory
\* does not hold make no difference.
C26_TrainingRowsFiltered ==
    (call.op = "setup" /\ call.ok) =>
        /\ Len(TrainRows) = Cardinality(EligiblePositions(dogs_df[1]))
        /\ \A r \in 1..Len(TrainRows) :
              TrainRows[r].id = dogs_df[1][NthEligible(dogs_df[1], r)].id

C26_Witness ==
    /\ call.op = "setup" /\ call.ok
    /\ \E p \in 1..Len(dogs_df[1]) : dogs_df[1][p].size = NaN
    /\ \E p \in 1..Len(dogs_df[1]) : dogs_df[1][p].id = 2023
    /\ CorruptIds \ {dogs_df[1][p].id : p \in 1..Len(dogs_df[1])} # {}
    /\ Len(TrainRows) = 2

\* ------------------------------------------------------------- the scaling
\* The value the r-th training row had in a continuous column before
\* scaling: the age, or the ordinal of the size label.
RawValue(r, f) ==
    LET row == dogs_df[1][NthEligible(dogs_df[1], r)]
    IN  IF f = "age" THEN row.age ELSE PET_SIZE_ENCODING[row.size]

RawValues(f) == {RawValue(r, f) : r \in 1..Len(TrainRows)}

\* Every continuous value lies in [0, 1] and every other column holds the
\* 0/1 encoding of the inventory row.
ScaledWithinUnit ==
    \A r \in 1..Len(TrainRows) :
        LET x   == TrainRows[r].x
            row == dogs_df[1][NthEligible(dogs_df[1], r)]
        IN  /\ \A f \in {"age", "size"} :
                  x[f].d > 0 /\ 0 <= x[f].n /\ x[f].n <= x[f].d
            /\ x["is_male"] = [n |-> PET_GENDER_ENCODING[row.gender], d |-> 1]
            /\ \A f \in DOMAIN x \ {"age", "size", "is_male"} :
                  x[f] = [n |-> IF f \in row.flags THEN 1 ELSE 0, d |-> 1]

MinToZero ==
    \A r \in 1..Len(TrainRows), f \in {"age", "size"} :
        (\A v \in RawValues(f) : RawValue(r, f) <= v)
            => TrainRows[r].x[f].n = 0

\* The claim as it stands: the rows holding the maximum are mapped to 1.
C27_Original ==
    (call.op = "setup" /\ call.ok) =>
        /\ ScaledWithinUnit
        /\ MinToZero
        /\ \A r \in 1..Len(TrainRows), f \in {"age", "size"} :
              (\A v \in RawValues(f) : RawValue(r, f) >= v)
                  => TrainRows[r].x[f].n = TrainRows[r].x[f].d

\* C27: after preprocessing, age and size of every training row lie in
\* [0, 1], the rows holding the minimum over the filtered rows are mapped to
\* 0, the rows holding the maximum are mapped to 1 when the column takes
\* more than one value, a column that takes one value only is mapped to 0
\* throughout, and every other column keeps its 0/1 encoding.
C27_MinMaxScaled ==
    (call.op = "setup" /\ call.ok) =>
        /\ ScaledWithinUnit
        /\ MinToZero
        /\ \A r \in 1..Len(TrainRows), f \in {"age", "size"} :
              /\ ((\A v \in RawValues(f) : RawValue(r, f) >= v)
                     /\ Cardinality(RawValues(f)) > 1)
                   => TrainRows[r].x[f].n = TrainRows[r].x[f].d
              /\ Cardinality(RawValues(f)) = 1 => TrainRows[r].x[f].n = 0

C27_Witness ==
    /\ call.op = "setup" /\ call.ok
    /\ Cardinality(RawValues("age")) > 1
    /\ \E r \in 1..Len(TrainRows) :
          TrainRows[r].x["age"].n = TrainRows[r].x["age"].d
    /\ \E r \in 1..Len(TrainRows) : TrainRows[r].x["age"].n = 0
    /\ Len(TrainRows) < Len(dogs_df[1])

\* ------------------------------------------------- filling in with the means
\* The mean m = n/d of a column of the training frame: d times the sum of
\* the column is n times the number of rows (every value of the column is
\* held over one denominator).
IsColumnMean(m, f) ==
    m.d * SumSeq([r \in 1..Len(TrainRows) |-> TrainRows[r].x[f].n])
        = m.n * TrainRows[1].x[f].d * Len(TrainRows)

\* C28: fill_features_with_means returns a vector with every feature of the
\* means, in which a feature of the input has the input's value and every
\* other feature the mean of its column of the training frame, and leaves
\* the means as they were.
C28_FilledWithMeans ==
    [][(call'.op = "fill" /\ call'.ok /\ Fitted) =>
          /\ chars_means' = chars_means
          /\ DOMAIN chars_means[1] \subseteq DOMAIN call'.out
          /\ \A f \in DOMAIN call'.out :
                IF f \in DOMAIN call'.input
                THEN call'.out[f] = call'.input[f]
                ELSE /\ call'.out[f] = chars_means[1][f]
                     /\ IsColumnMean(call'.out[f], f)]_vars

C28_Witness ==
    /\ call.op = "fill" /\ call.ok /\ Fitted
    /\ DOMAIN call.input = {"age", "size", "is_male"}
    /\ \E f \in DOMAIN chars_means[1] \ DOMAIN call.input :
          /\ 0 < call.out[f].n
          /\ call.out[f].n < call.out[f].d
    /\ call.out["age"] # chars_means[1]["age"]

\* ------------------------------------------------- the cursor of the page
\* The last run ended by itself, so the screen is what it rendered.
Ended == run.outcome # "interrupted"

Cursor == session_state.current_pet_id

Results == session_state.pet_recommendations

\* C29: whatever clicks came, also clicks on buttons of a render that is out
\* of date, a record is on screen only when 0 <= current_pet_id <
\* len(pet_recommendations), and it is the record at the cursor; a run that
\* reaches the display with the cursor out of range shows the error message
\* and no record; and a click on next or previous moves the cursor by
\* exactly one.
C29_CursorChecked ==
    /\ []((Ended /\ run.displayed # <<>>) =>
             /\ 0 <= Cursor /\ Cursor < Len(Results)
             /\ run.displayed = <<Results[Cursor + 1]>>)
    /\ []((Ended /\ run.nav /\ (Cursor < 0 \/ Cursor >= Len(Results))) =>
             /\ run.outcome = "bug_error"
             /\ run.displayed = <<>>)
    /\ [][run'.trigger \in {"next", "previous"} =>
             session_state'.current_pet_id =
                 Cursor + (IF run'.trigger = "next" THEN 1 ELSE -1)]_vars

C29_Witness ==
    /\ Ended /\ run.outcome = "bug_error"
    /\ run.trigger = "next"
    /\ Len(Results) > 0 /\ Cursor = Len(Results)

\* ------------------------------------------------- results and submissions
\* The result lists a query with the answers the form holds can return now.
ResultsOfForm ==
    {q.recs : q \in {q \in get_pet_recommendations(
                               form_values.answers,
                               session_state.number_of_recommendations,
                               knn_model, dogs_df, dogs_train_df) : q.ok}}

\* C30: a submit leaves the cursor at 0 and both navigation flags cleared;
\* a submit that passes the checks shows the first record of the result of
\* its own answers; a submit that is rejected shows no record; and whatever
\* record is on screen belongs to the result of the answers of the last
\* submit.
C30_SubmitReplacesResults ==
    /\ run.trigger = "submit" =>
          /\ Cursor = 0
          /\ ~session_state.next_recommendation
          /\ ~session_state.previous_recommendation
    /\ (Ended /\ run.trigger = "submit" /\ run.outcome = "shown") =>
          /\ Results \in ResultsOfForm
          /\ run.displayed = <<Results[1]>>
    /\ (Ended /\ run.trigger = "submit" /\ run.outcome \in Rejected) =>
          run.displayed = <<>>
    /\ (Ended /\ run.displayed # <<>>) => Results \in ResultsOfForm

====
